---- MODULE Spec2Model ----
(***************************************************************************)
(* Model of ceph-rbd-backup.py: the date stamps, the rbd command wrapper,  *)
(* Replicator.replicate, Replicator.check, Volume and the snapshot action. *)
(*                                                                         *)
(* Every rbd / fsfreeze subprocess is one atomic step: between two steps   *)
(* of one invocation another invocation may run.  The calendar date is     *)
(* read from the variable day on every Stamp() call; TickDay moves it      *)
(* between runs.  A subprocess of replicate and check ends with an exit    *)
(* status; in the freeze / unfreeze bracket of the snapshot action a       *)
(* subprocess call may also raise (OSError of Popen, KeyboardInterrupt).   *)
(* The switches stamp_day_after and snapshot_mounted_only are variables    *)
(* no action changes: the specifications of the replicate, check and       *)
(* snapshot actions start with the values the script sets, SpecBackup and  *)
(* SpecVolume with either value.                                           *)
(***************************************************************************)
EXTENDS Integers, Sequences, FiniteSets, TLC

\* ------------------------------------------------------------------ bounds
\* ordinal of the first calendar day on which a run may take place
FirstDay == 3
\* ordinal of the last calendar day the clock may reach
MaxDay == 4
\* longest snapshot history a cluster holds for one image at start
MaxSnaps == 2
\* the clock is looked at this many hours before and after the threshold
HourSpan == 1

\* ------------------------------------------------------- configuration
\* the two switches at the head of the script; a deployment sets them once
VARIABLES
  stamp_day_after,        \* True: snapshots before midnight, replicator after
  snapshot_mounted_only   \* True: only make snapshots of mounted volumes

configVars == <<stamp_day_after, snapshot_mounted_only>>

check_threshold_time == 8

\* ------------------------------------------------------------- calendar
\* datetime.date: ordinal 0 is the date Epoch; the window crosses a month
\* and a year boundary.
Epoch == <<2023, 12, 30>>

IsLeap(y) == (y % 4 = 0 /\ y % 100 # 0) \/ y % 400 = 0

DaysInMonth(y, m) ==
  IF m = 2 THEN (IF IsLeap(y) THEN 29 ELSE 28)
  ELSE IF m \in {4, 6, 9, 11} THEN 30 ELSE 31

NextDate(dt) ==
  IF dt[3] < DaysInMonth(dt[1], dt[2]) THEN <<dt[1], dt[2], dt[3] + 1>>
  ELSE IF dt[2] < 12 THEN <<dt[1], dt[2] + 1, 1>>
  ELSE <<dt[1] + 1, 1, 1>>

PrevDate(dt) ==
  IF dt[3] > 1 THEN <<dt[1], dt[2], dt[3] - 1>>
  ELSE IF dt[2] > 1 THEN <<dt[1], dt[2] - 1, DaysInMonth(dt[1], dt[2] - 1)>>
  ELSE <<dt[1] - 1, 12, 31>>

RECURSIVE FromOrdinal(_)
FromOrdinal(n) ==
  IF n = 0 THEN Epoch
  ELSE IF n > 0 THEN NextDate(FromOrdinal(n - 1))
  ELSE PrevDate(FromOrdinal(n + 1))

\* ---------------------------------------------------------------- Stamp
\* strftime("%Y-%m-%d"): the zero-padded fields year, month, day in this
\* order; a label is the triple of the three fields.
\* the dates a run can format: date.today() minus at most delta_days + 1 days
Dates == 0..(MaxDay + 1)

\* the formatted form of every date of Dates, computed once
Calendar == [date \in Dates |-> FromOrdinal(date)]

_stamp(date) == Calendar[date]

delta_days == IF stamp_day_after THEN 1 ELSE 0

\* mutant of today: the day offset is left out
today_no_offset(d) == _stamp(d)

\* Stamp().today(), .yesterday(), .now() when date.today() is d
today(d) == _stamp(d - delta_days)
yesterday(d) == _stamp(d - (delta_days + 1))
now(d) == _stamp(d)

\* ----------------------------------------------------------- the clusters
Images == {"a", "b"}
\* the order in which `rbd list` returns the images of the source cluster
ImageList == <<"a", "b">>
\* --image not given
NoImage == ""
\* export-diff without --from_snap
NoSnap == <<>>
\* the process has not exited
NoExit == -1
\* a command without --size
NoSize == 0

Procs == {1, 2}

\* labels a history may hold at start: the three labels Stamp() gives on
\* the first day
InitLabels == {yesterday(FirstDay), today(FirstDay), now(FirstDay)}

LabelLess(l1, l2) ==
  \/ l1[1] < l2[1]
  \/ l1[1] = l2[1] /\ l1[2] < l2[2]
  \/ l1[1] = l2[1] /\ l1[2] = l2[2] /\ l1[3] < l2[3]

Range(s) == {s[i] : i \in 1 .. Len(s)}

Last(s) == s[Len(s)]

IsIncreasing(s) == \A i \in 1 .. Len(s) - 1 : LabelLess(s[i], s[i + 1])

\* snapshot histories as `rbd snap list` returns them: in creation order
Histories ==
  {h \in UNION {[1 .. n -> InitLabels] : n \in 0 .. MaxSnaps} : IsIncreasing(h)}

VARIABLES
  day,        \* datetime.date.today(), as an ordinal
  tod,        \* datetime.datetime.now().time(), the hour
  srcSnaps,   \* production cluster: image -> snapshot names
  dstImages,  \* backup cluster: the images that exist
  dstSnaps,   \* backup cluster: image -> snapshot names
  rpc,        \* replicate invocation p: position in Replicator.replicate
  ridx,       \* replicate invocation p: index of `image` in the listing
  rsingle,    \* replicate invocation p: single_image
  rerrors,    \* replicate invocation p: errors
  rcmds,      \* replicate invocation p: the rbd commands it has run
  rout,       \* replicate invocation p: the logging.info/error lines
  cpc,        \* check invocation: position in Replicator.check
  cidx,       \* check invocation: index of `image` in the listing
  csingle,    \* check invocation: single_image
  cerrors,    \* check invocation: errors
  ccmds,      \* check invocation: the rbd commands it has run
  cprint,     \* check invocation: the lines printed on stdout
  cexit,      \* check invocation: the process exit status
  spc,        \* snapshot invocation: position in the snapshot action
  sidx,       \* snapshot invocation: index of `volume` in volumes
  ssingle,    \* snapshot invocation: args.image
  smounted,   \* Volume.mountpoint is not None, per volume
  sfrozen,    \* Volume.frozen, per volume
  fsfrozen,   \* the filesystem of the volume is frozen
  scmds,      \* snapshot invocation: the subprocesses it has run
  sout        \* snapshot invocation: the logging.info/error lines

clusterVars == <<srcSnaps, dstImages, dstSnaps>>
clockVars == <<day, tod>>
replVars == <<rpc, ridx, rsingle, rerrors, rcmds, rout>>
checkVars == <<cpc, cidx, csingle, cerrors, ccmds, cprint, cexit>>
snapVars == <<spc, sidx, ssingle, smounted, sfrozen, fsfrozen, scmds, sout>>
vars == <<stamp_day_after, snapshot_mounted_only,
          day, tod, srcSnaps, dstImages, dstSnaps,
          rpc, ridx, rsingle, rerrors, rcmds, rout,
          cpc, cidx, csingle, cerrors, ccmds, cprint, cexit,
          spc, sidx, ssingle, smounted, sfrozen, fsfrozen, scmds, sout>>

\* ------------------------------------------------------------------- Rbd
\* one rbd subprocess: the command, the cluster it addresses, its
\* arguments and whether it exited with status 0
Cmd(c, cl, im, sn, fr, st) ==
  [cmd |-> c, cluster |-> cl, image |-> im, snap |-> sn, from |-> fr,
   size |-> NoSize, ok |-> st]

\* lines 98-99: `rbd create image --size size`
CreateCmd(im, sz, st) ==
  [Cmd("create", "dst", im, NoSnap, NoSnap, st) EXCEPT !.size = sz]

\* Rbd.snap_list_names
snap_list_names(snaps, image) == snaps[image]

\* `rbd export-diff image - --snap snap [--from_snap from]` produces a diff
ExportWorks(image, snap, from) ==
  /\ snap \in Range(snap_list_names(srcSnaps, image))
  /\ from = NoSnap \/ from \in Range(snap_list_names(srcSnaps, image))

\* `rbd import-diff - image` accepts the diff
ImportWorks(image, snap, from) ==
  /\ image \in dstImages
  /\ snap \notin Range(snap_list_names(dstSnaps, image))
  /\ from = NoSnap \/ from \in Range(snap_list_names(dstSnaps, image))

\* Rbd.create: `rbd create image --size size`; the command's exit status
\* is not looked at, so the image may or may not exist afterwards
create(image, size) ==
  /\ \/ image \notin dstImages /\ dstImages' = dstImages \cup {image}
     \/ dstImages' = dstImages
  /\ dstSnaps' = dstSnaps

\* dst_rbd.import_diff(image, src_rbd.export_diff(image, snap, from)):
\* the export piped into the import.  When both commands work the backup
\* image gains the snapshot snap; neither exit status is looked at.
transfer(image, snap, from) ==
  /\ \/ /\ ExportWorks(image, snap, from)
        /\ ImportWorks(image, snap, from)
        /\ dstSnaps' = [dstSnaps EXCEPT ![image] = Append(@, snap)]
     \/ dstSnaps' = dstSnaps
  /\ dstImages' = dstImages

\* ------------------------------------------------------------ Replicator
Info(m, im) == [level |-> "info", msg |-> m, image |-> im]
Error(m, im) == [level |-> "error", msg |-> m, image |-> im]

image(p) == ImageList[ridx[p]]

\* the commands and log lines p adds in one step
Ran(p, cs) == rcmds' = [rcmds EXCEPT ![p] = @ \o cs]
Logged(p, ls) == rout' = [rout EXCEPT ![p] = @ \o ls]
Goto(p, l) == rpc' = [rpc EXCEPT ![p] = l]

\* mutant of ReplicatorImageException: the exception ends the loop
ReplicatorImageException_break(p, m) ==
  /\ rerrors' = [rerrors EXCEPT ![p] = TRUE]
  /\ Logged(p, <<Error(m, image(p))>>)
  /\ ridx' = [ridx EXCEPT ![p] = Len(ImageList) + 1]
  /\ Goto(p, "loop")

\* lines 167-170: except ReplicatorImageException: errors = True; continue
ReplicatorImageException(p, m) ==
  /\ rerrors' = [rerrors EXCEPT ![p] = TRUE]
  /\ Logged(p, <<Error(m, image(p))>>)
  /\ ridx' = [ridx EXCEPT ![p] = @ + 1]
  /\ Goto(p, "loop")

\* lines 143-146: replicate(single_image) starts and lists the source
replicate(p, single_image) ==
  /\ rpc[p] \in {"idle", "done"}
  /\ Goto(p, "loop")
  /\ ridx' = [ridx EXCEPT ![p] = 1]
  /\ rsingle' = [rsingle EXCEPT ![p] = single_image]
  /\ rerrors' = [rerrors EXCEPT ![p] = FALSE]
  /\ rcmds' = [rcmds EXCEPT ![p] = <<Cmd("list", "src", NoImage, NoSnap, NoSnap, TRUE)>>]
  /\ rout' = [rout EXCEPT ![p] = <<Info("Starting replication", NoImage)>>]
  /\ UNCHANGED <<clusterVars, clockVars, configVars, checkVars, snapVars>>

\* lines 146-148: the next image of the listing
replicate_next(p) ==
  /\ rpc[p] = "loop"
  /\ ridx[p] <= Len(ImageList)
  /\ IF rsingle[p] # NoImage /\ image(p) # rsingle[p]
     THEN /\ ridx' = [ridx EXCEPT ![p] = @ + 1]
          /\ UNCHANGED <<rpc, rout>>
     ELSE /\ Logged(p, <<Info("Replicating image", image(p))>>)
          /\ Goto(p, "l151")
          /\ UNCHANGED ridx
  /\ UNCHANGED <<rsingle, rerrors, rcmds, clusterVars, clockVars, configVars, checkVars, snapVars>>

\* line 171: the listing is exhausted
replicate_finish(p) ==
  /\ rpc[p] = "loop"
  /\ ridx[p] > Len(ImageList)
  /\ Logged(p, <<Info(IF rerrors[p] THEN "Finished replication (with errors)"
                                    ELSE "Finished replication", NoImage)>>)
  /\ Goto(p, "done")
  /\ UNCHANGED <<ridx, rsingle, rerrors, rcmds, clusterVars, clockVars, configVars, checkVars, snapVars>>

\* mutant of replicate_l151: the check of line 151 is left out
replicate_l151_unchecked(p) ==
  /\ rpc[p] = "l151"
  /\ Ran(p, <<Cmd("snap list", "src", image(p), NoSnap, NoSnap, TRUE)>>)
  /\ Goto(p, "l154")
  /\ UNCHANGED <<ridx, rerrors, rout, rsingle, clusterVars, clockVars, configVars, checkVars, snapVars>>

\* lines 151-152: today's snapshot must exist on the source
replicate_l151(p) ==
  /\ rpc[p] = "l151"
  /\ Ran(p, <<Cmd("snap list", "src", image(p), NoSnap, NoSnap, TRUE)>>)
  /\ IF today(day) \notin Range(snap_list_names(srcSnaps, image(p)))
     THEN ReplicatorImageException(p, "Source image doesn't have today's snapshot")
     ELSE Goto(p, "l154") /\ UNCHANGED <<ridx, rerrors, rout>>
  /\ UNCHANGED <<rsingle, clusterVars, clockVars, configVars, checkVars, snapVars>>

\* line 154: does the image exist on the destination
replicate_l154(p) ==
  /\ rpc[p] = "l154"
  /\ Ran(p, <<Cmd("list", "dst", NoImage, NoSnap, NoSnap, TRUE)>>)
  /\ IF image(p) \notin dstImages
     THEN Logged(p, <<Info("Creating new image on destination", image(p))>>)
          /\ Goto(p, "l156")
     ELSE Goto(p, "l160") /\ UNCHANGED rout
  /\ UNCHANGED <<ridx, rsingle, rerrors, clusterVars, clockVars, configVars, checkVars, snapVars>>

\* line 156: self.dst_rbd.create(image, 1)
replicate_l156(p) ==
  /\ rpc[p] = "l156"
  /\ create(image(p), 1)
  /\ Ran(p, <<CreateCmd(image(p), 1, dstImages' # dstImages)>>)
  /\ Goto(p, "l157")
  /\ UNCHANGED <<ridx, rsingle, rerrors, rout, srcSnaps, clockVars, configVars, checkVars, snapVars>>

\* mutant of replicate_l157: the listing after the creation is not looked at
replicate_l157_unchecked(p) ==
  /\ rpc[p] = "l157"
  /\ Ran(p, <<Cmd("list", "dst", NoImage, NoSnap, NoSnap, TRUE)>>)
  /\ Goto(p, "l160")
  /\ UNCHANGED <<ridx, rerrors, rout, rsingle, clusterVars, clockVars, configVars, checkVars, snapVars>>

\* lines 157-158: the created image must be listed
replicate_l157(p) ==
  /\ rpc[p] = "l157"
  /\ Ran(p, <<Cmd("list", "dst", NoImage, NoSnap, NoSnap, TRUE)>>)
  /\ IF image(p) \notin dstImages
     THEN ReplicatorImageException(p, "Error creating new image on destination")
     ELSE Goto(p, "l160") /\ UNCHANGED <<ridx, rerrors, rout>>
  /\ UNCHANGED <<rsingle, clusterVars, clockVars, configVars, checkVars, snapVars>>

\* mutant of replicate_l160: the check of line 160 is left out
replicate_l160_unchecked(p) ==
  /\ rpc[p] = "l160"
  /\ Ran(p, <<Cmd("snap list", "dst", image(p), NoSnap, NoSnap, TRUE)>>)
  /\ Goto(p, "l163")
  /\ UNCHANGED <<ridx, rerrors, rout, rsingle, clusterVars, clockVars, configVars, checkVars, snapVars>>

\* lines 160-161: today's snapshot must not exist on the destination
replicate_l160(p) ==
  /\ rpc[p] = "l160"
  /\ Ran(p, <<Cmd("snap list", "dst", image(p), NoSnap, NoSnap, TRUE)>>)
  /\ IF today(day) \in Range(snap_list_names(dstSnaps, image(p)))
     THEN ReplicatorImageException(p, "Destination image already has today's snapshot")
     ELSE Goto(p, "l163") /\ UNCHANGED <<ridx, rerrors, rout>>
  /\ UNCHANGED <<rsingle, clusterVars, clockVars, configVars, checkVars, snapVars>>

\* mutant of replicate_l163: a destination whose latest snapshot is not
\* on the source is replicated in full
replicate_l163_resync(p) ==
  /\ rpc[p] = "l163"
  /\ Ran(p, <<Cmd("snap list", "dst", image(p), NoSnap, NoSnap, TRUE)>>)
  /\ IF \/ snap_list_names(dstSnaps, image(p)) = <<>>
        \/ Last(snap_list_names(dstSnaps, image(p)))
             \notin Range(snap_list_names(srcSnaps, image(p)))
     THEN Logged(p, <<Info("Doing full replication", image(p))>>)
          /\ Goto(p, "l133")
     ELSE Logged(p, <<Info("Doing diff replication", image(p))>>)
          /\ Goto(p, "l137")
  /\ UNCHANGED <<ridx, rsingle, rerrors, clusterVars, clockVars, configVars, checkVars, snapVars>>

\* lines 163-166: no snapshot on the destination: full, otherwise diff
replicate_l163(p) ==
  /\ rpc[p] = "l163"
  /\ Ran(p, <<Cmd("snap list", "dst", image(p), NoSnap, NoSnap, TRUE)>>)
  /\ IF snap_list_names(dstSnaps, image(p)) = <<>>
     THEN Logged(p, <<Info("Doing full replication", image(p))>>)
          /\ Goto(p, "l133")
     ELSE Logged(p, <<Info("Doing diff replication", image(p))>>)
          /\ Goto(p, "l137")
  /\ UNCHANGED <<ridx, rsingle, rerrors, clusterVars, clockVars, configVars, checkVars, snapVars>>

\* mutant of _replicate_snap_full: the snapshot of the run's own date
_replicate_snap_full_now(p) ==
  /\ rpc[p] = "l133"
  /\ transfer(image(p), now(day), NoSnap)
  /\ Ran(p, <<Cmd("export-diff", "src", image(p), now(day), NoSnap, dstSnaps' # dstSnaps),
              Cmd("import-diff", "dst", image(p), NoSnap, NoSnap, dstSnaps' # dstSnaps)>>)
  /\ ridx' = [ridx EXCEPT ![p] = @ + 1]
  /\ Goto(p, "loop")
  /\ UNCHANGED <<rsingle, rerrors, rout, srcSnaps, clockVars, configVars, checkVars, snapVars>>

\* line 133: _replicate_snap_full
_replicate_snap_full(p) ==
  /\ rpc[p] = "l133"
  /\ transfer(image(p), today(day), NoSnap)
  /\ Ran(p, <<Cmd("export-diff", "src", image(p), today(day), NoSnap, dstSnaps' # dstSnaps),
              Cmd("import-diff", "dst", image(p), NoSnap, NoSnap, dstSnaps' # dstSnaps)>>)
  /\ ridx' = [ridx EXCEPT ![p] = @ + 1]
  /\ Goto(p, "loop")
  /\ UNCHANGED <<rsingle, rerrors, rout, srcSnaps, clockVars, configVars, checkVars, snapVars>>

\* mutant of _replicate_snap_diff_l137: the check of line 137 is left out
_replicate_snap_diff_l137_unchecked(p) ==
  /\ rpc[p] = "l137"
  /\ Ran(p, <<Cmd("snap list", "src", image(p), NoSnap, NoSnap, TRUE)>>)
  /\ Goto(p, "l139")
  /\ UNCHANGED <<ridx, rerrors, rout, rsingle, clusterVars, clockVars, configVars, checkVars, snapVars>>

\* lines 137-138: yesterday's snapshot must exist on the source
_replicate_snap_diff_l137(p) ==
  /\ rpc[p] = "l137"
  /\ Ran(p, <<Cmd("snap list", "src", image(p), NoSnap, NoSnap, TRUE)>>)
  /\ IF yesterday(day) \notin Range(snap_list_names(srcSnaps, image(p)))
     THEN ReplicatorImageException(p, "Source image doesn't have yesterday's snapshot")
     ELSE Goto(p, "l139") /\ UNCHANGED <<ridx, rerrors, rout>>
  /\ UNCHANGED <<rsingle, clusterVars, clockVars, configVars, checkVars, snapVars>>

\* mutant of _replicate_snap_diff_l139: the check of line 139 is left out
_replicate_snap_diff_l139_unchecked(p) ==
  /\ rpc[p] = "l139"
  /\ Ran(p, <<Cmd("snap list", "dst", image(p), NoSnap, NoSnap, TRUE)>>)
  /\ Goto(p, "l141")
  /\ UNCHANGED <<ridx, rerrors, rout, rsingle, clusterVars, clockVars, configVars, checkVars, snapVars>>

\* lines 139-140: yesterday's snapshot must exist on the destination
_replicate_snap_diff_l139(p) ==
  /\ rpc[p] = "l139"
  /\ Ran(p, <<Cmd("snap list", "dst", image(p), NoSnap, NoSnap, TRUE)>>)
  /\ IF yesterday(day) \notin Range(snap_list_names(dstSnaps, image(p)))
     THEN ReplicatorImageException(p, "Destination image doesn't have yesterday's snapshot")
     ELSE Goto(p, "l141") /\ UNCHANGED <<ridx, rerrors, rout>>
  /\ UNCHANGED <<rsingle, clusterVars, clockVars, configVars, checkVars, snapVars>>

\* line 141: the diff from yesterday's to today's snapshot
_replicate_snap_diff_l141(p) ==
  /\ rpc[p] = "l141"
  /\ transfer(image(p), today(day), yesterday(day))
  /\ Ran(p, <<Cmd("export-diff", "src", image(p), today(day), yesterday(day), dstSnaps' # dstSnaps),
              Cmd("import-diff", "dst", image(p), NoSnap, NoSnap, dstSnaps' # dstSnaps)>>)
  /\ ridx' = [ridx EXCEPT ![p] = @ + 1]
  /\ Goto(p, "loop")
  /\ UNCHANGED <<rsingle, rerrors, rout, srcSnaps, clockVars, configVars, checkVars, snapVars>>

\* one step of replicate invocation p
replicate_step(p) ==
  \/ replicate_next(p)
  \/ replicate_finish(p)
  \/ replicate_l151(p)
  \/ replicate_l154(p)
  \/ replicate_l156(p)
  \/ replicate_l157(p)
  \/ replicate_l160(p)
  \/ replicate_l163(p)
  \/ _replicate_snap_full(p)
  \/ _replicate_snap_diff_l137(p)
  \/ _replicate_snap_diff_l139(p)
  \/ _replicate_snap_diff_l141(p)

\* ------------------------------------------------------ Replicator.check
\* the hours of the day at which the clock is looked at
FirstHour == check_threshold_time - HourSpan
LastHour == check_threshold_time + HourSpan

cimage == ImageList[cidx]

\* an entry of errors: "<image>: <what> [<snap>] ..."
CheckError(im, what, sn) == [image |-> im, what |-> what, snap |-> sn]

\* a line of stdout: its fixed head, the error count of a header line and
\* what follows: an entry of errors, "Backup for image <image> OK" /
\* "All backups OK" or the word "errors"
Line(h, n, b) == [head |-> h, count |-> n, body |-> b]
NoCount == 0

CRan(cs) == ccmds' = ccmds \o cs

\* errors.append(e), then the next image
check_append(e) ==
  /\ cerrors' = Append(cerrors, e)
  /\ cidx' = cidx + 1
  /\ cpc' = "loop"

\* no error for this image, the next image
check_pass ==
  /\ cidx' = cidx + 1
  /\ cpc' = "loop"
  /\ UNCHANGED cerrors

\* line 173-175: check(threshold_time, single_image) starts and lists the
\* source
check(single_image) ==
  /\ cpc = "idle"
  /\ cpc' = "loop"
  /\ cidx' = 1
  /\ csingle' = single_image
  /\ cerrors' = <<>>
  /\ ccmds' = <<Cmd("list", "src", NoImage, NoSnap, NoSnap, TRUE)>>
  /\ UNCHANGED <<cprint, cexit, clusterVars, clockVars, configVars, replVars, snapVars>>

\* mutant of check_next: the threshold time itself counts as before
check_next_inclusive ==
  /\ cpc = "loop"
  /\ cidx <= Len(ImageList)
  /\ IF csingle # NoImage /\ cimage # csingle
     THEN cidx' = cidx + 1 /\ UNCHANGED cpc
     ELSE /\ cpc' = IF tod <= check_threshold_time THEN "l179" ELSE "l185"
          /\ UNCHANGED cidx
  /\ UNCHANGED <<csingle, cerrors, ccmds, cprint, cexit,
                 clusterVars, clockVars, configVars, replVars, snapVars>>

\* lines 175-177: the next image of the listing, and the time of day
check_next ==
  /\ cpc = "loop"
  /\ cidx <= Len(ImageList)
  /\ IF csingle # NoImage /\ cimage # csingle
     THEN cidx' = cidx + 1 /\ UNCHANGED cpc
     ELSE /\ cpc' = IF tod < check_threshold_time THEN "l179" ELSE "l185"
          /\ UNCHANGED cidx
  /\ UNCHANGED <<csingle, cerrors, ccmds, cprint, cexit,
                 clusterVars, clockVars, configVars, replVars, snapVars>>

\* lines 179-180: before the threshold, yesterday's snapshot on production
check_l179 ==
  /\ cpc = "l179"
  /\ CRan(<<Cmd("snap list", "src", cimage, NoSnap, NoSnap, TRUE)>>)
  /\ IF yesterday(day) \notin Range(snap_list_names(srcSnaps, cimage))
     THEN check_append(CheckError(cimage, "missing snapshot on production cluster",
                                  yesterday(day)))
     ELSE cpc' = "l181" /\ UNCHANGED <<cidx, cerrors>>
  /\ UNCHANGED <<csingle, cprint, cexit, clusterVars, clockVars, configVars, replVars, snapVars>>

\* lines 181-182: before the threshold, yesterday's snapshot on backup.
\* `rbd snap list` of an image the backup cluster does not have prints no
\* JSON: json.loads raises ValueError, which nothing catches, and the
\* interpreter exits with status 1.
check_l181 ==
  /\ cpc = "l181"
  /\ CRan(<<Cmd("snap list", "dst", cimage, NoSnap, NoSnap, cimage \in dstImages)>>)
  /\ IF cimage \notin dstImages
     THEN /\ cpc' = "raised"
          /\ cexit' = 1
          /\ UNCHANGED <<cidx, cerrors>>
     ELSE /\ IF yesterday(day) \notin Range(snap_list_names(dstSnaps, cimage))
             THEN check_append(CheckError(cimage, "missing snapshot on backup cluster",
                                          yesterday(day)))
             ELSE check_pass
          /\ UNCHANGED cexit
  /\ UNCHANGED <<csingle, cprint, clusterVars, clockVars, configVars, replVars, snapVars>>

\* mutant of check_l185: an image missing on backup is created on the spot
check_l185_creates ==
  /\ cpc = "l185"
  /\ IF cimage \notin dstImages
     THEN /\ CRan(<<Cmd("list", "dst", NoImage, NoSnap, NoSnap, TRUE),
                    CreateCmd(cimage, 1, TRUE)>>)
          /\ dstImages' = dstImages \cup {cimage}
          /\ check_append(CheckError(cimage, "image missing on backup cluster", NoSnap))
     ELSE /\ CRan(<<Cmd("list", "dst", NoImage, NoSnap, NoSnap, TRUE)>>)
          /\ cpc' = "l187"
          /\ UNCHANGED <<cidx, cerrors, dstImages>>
  /\ UNCHANGED <<csingle, cprint, cexit, srcSnaps, dstSnaps, clockVars, configVars, replVars, snapVars>>

\* lines 185-186: at or after the threshold, the image on backup
check_l185 ==
  /\ cpc = "l185"
  /\ CRan(<<Cmd("list", "dst", NoImage, NoSnap, NoSnap, TRUE)>>)
  /\ IF cimage \notin dstImages
     THEN check_append(CheckError(cimage, "image missing on backup cluster", NoSnap))
     ELSE cpc' = "l187" /\ UNCHANGED <<cidx, cerrors>>
  /\ UNCHANGED <<csingle, cprint, cexit, clusterVars, clockVars, configVars, replVars, snapVars>>

\* lines 187-188: today's snapshot on production
check_l187 ==
  /\ cpc = "l187"
  /\ CRan(<<Cmd("snap list", "src", cimage, NoSnap, NoSnap, TRUE)>>)
  /\ IF today(day) \notin Range(snap_list_names(srcSnaps, cimage))
     THEN check_append(CheckError(cimage, "missing snapshot on production cluster",
                                  today(day)))
     ELSE cpc' = "l189" /\ UNCHANGED <<cidx, cerrors>>
  /\ UNCHANGED <<csingle, cprint, cexit, clusterVars, clockVars, configVars, replVars, snapVars>>

\* mutant of check_l189: the backup cluster is asked for yesterday's snapshot
check_l189_yesterday ==
  /\ cpc = "l189"
  /\ CRan(<<Cmd("snap list", "dst", cimage, NoSnap, NoSnap, TRUE)>>)
  /\ IF yesterday(day) \notin Range(snap_list_names(dstSnaps, cimage))
     THEN check_append(CheckError(cimage, "missing snapshot on backup cluster",
                                  today(day)))
     ELSE check_pass
  /\ UNCHANGED <<csingle, cprint, cexit, clusterVars, clockVars, configVars, replVars, snapVars>>

\* lines 189-190: today's snapshot on backup
check_l189 ==
  /\ cpc = "l189"
  /\ CRan(<<Cmd("snap list", "dst", cimage, NoSnap, NoSnap, TRUE)>>)
  /\ IF today(day) \notin Range(snap_list_names(dstSnaps, cimage))
     THEN check_append(CheckError(cimage, "missing snapshot on backup cluster",
                                  today(day)))
     ELSE check_pass
  /\ UNCHANGED <<csingle, cprint, cexit, clusterVars, clockVars, configVars, replVars, snapVars>>

\* "\n".join(errors): one line per entry
JoinLines(errors) == [i \in 1 .. Len(errors) |-> Line("", NoCount, errors[i])]

\* mutant of check_report: a single error is printed under a count header
check_report_always_header ==
  /\ cpc = "loop"
  /\ cidx > Len(ImageList)
  /\ IF cerrors = <<>>
     THEN /\ cprint' = <<Line("BACKUP OK", NoCount, CheckError(csingle, "OK", NoSnap))>>
          /\ cexit' = 0
     ELSE /\ cprint' = <<Line("BACKUP ERROR", Len(cerrors), CheckError(NoImage, "errors", NoSnap))>> \o JoinLines(cerrors)
          /\ cexit' = 2
  /\ cpc' = "exited"
  /\ UNCHANGED <<cidx, csingle, cerrors, ccmds, clusterVars, clockVars, configVars, replVars, snapVars>>

\* lines 191-200: the report and the exit status
check_report ==
  /\ cpc = "loop"
  /\ cidx > Len(ImageList)
  /\ IF cerrors = <<>>
     THEN /\ cprint' = <<Line("BACKUP OK", NoCount, CheckError(csingle, "OK", NoSnap))>>
          /\ cexit' = 0
     ELSE IF Len(cerrors) = 1
     THEN /\ cprint' = <<Line("BACKUP ERROR", NoCount, cerrors[1])>>
          /\ cexit' = 2
     ELSE /\ cprint' = <<Line("BACKUP ERROR", Len(cerrors), CheckError(NoImage, "errors", NoSnap))>> \o JoinLines(cerrors)
          /\ cexit' = 2
  /\ cpc' = "exited"
  /\ UNCHANGED <<cidx, csingle, cerrors, ccmds, clusterVars, clockVars, configVars, replVars, snapVars>>

check_step ==
  \/ check_next
  \/ check_l179
  \/ check_l181
  \/ check_l185
  \/ check_l187
  \/ check_l189
  \/ check_report

\* ------------------------------------------------ Volume, snapshot action
\* volumes: one Volume per mapped image, in the order of showmapped
volume == ImageList[sidx]

SRan(cs) == scmds' = scmds \o cs
SLogged(ls) == sout' = sout \o ls

\* continue: the next volume
snapshot_continue ==
  /\ sidx' = sidx + 1
  /\ spc' = "loop"

\* lines 282-284: except VolumeException: log and continue
VolumeException(m) ==
  /\ SLogged(<<Error(m, volume)>>)
  /\ snapshot_continue

\* an exception that is no VolumeException (OSError of Popen,
\* KeyboardInterrupt) leaves the loop and ends the interpreter
Raised ==
  /\ spc' = "raised"
  /\ UNCHANGED <<sidx, sout>>

\* Volume.mounted
mounted(v) == smounted[v]

\* lines 263-268: the snapshot action starts: showmapped, one findmnt per
\* volume
snapshot(single_image) ==
  /\ spc \in {"idle", "done", "exited"}
  /\ spc' = "loop"
  /\ sidx' = 1
  /\ ssingle' = single_image
  /\ smounted' \in [Images -> BOOLEAN]
  /\ sfrozen' = [im \in Images |-> FALSE]
  /\ scmds' = <<Cmd("showmapped", "src", NoImage, NoSnap, NoSnap, TRUE)>>
               \o [i \in 1 .. Len(ImageList) |->
                     Cmd("findmnt", "host", ImageList[i], NoSnap, NoSnap, TRUE)]
  /\ sout' = <<Info("Starting snapshot", NoImage)>>
  /\ UNCHANGED <<fsfrozen, clusterVars, clockVars, configVars, replVars, checkVars>>

\* lines 269-272: the next volume
snapshot_next ==
  /\ spc = "loop"
  /\ sidx <= Len(ImageList)
  /\ IF \/ ssingle # NoImage /\ volume # ssingle
        \/ ~mounted(volume) /\ snapshot_mounted_only
     THEN sidx' = sidx + 1 /\ UNCHANGED <<spc, sout>>
     ELSE /\ SLogged(<<Info("Creating snapshot", volume)>>)
          /\ spc' = "l273"
          /\ UNCHANGED sidx
  /\ UNCHANGED <<ssingle, smounted, sfrozen, fsfrozen, scmds,
                 clusterVars, clockVars, configVars, replVars, checkVars>>

\* line 285: errors is never set, the summary never names errors
snapshot_finish ==
  /\ spc = "loop"
  /\ sidx > Len(ImageList)
  /\ SLogged(<<Info("Finished snapshot", NoImage)>>)
  /\ spc' = "done"
  /\ UNCHANGED <<sidx, ssingle, smounted, sfrozen, fsfrozen, scmds,
                 clusterVars, clockVars, configVars, replVars, checkVars>>

\* mutant of snapshot_l273: the check of line 273 is left out
snapshot_l273_unchecked ==
  /\ spc = "l273"
  /\ SRan(<<Cmd("snap list", "src", volume, NoSnap, NoSnap, TRUE)>>)
  /\ spc' = IF mounted(volume) THEN "l278" ELSE "l279"
  /\ UNCHANGED <<sidx, sout>>
  /\ UNCHANGED <<ssingle, smounted, sfrozen, fsfrozen,
                 clusterVars, clockVars, configVars, replVars, checkVars>>

\* lines 273-277: the snapshot of the date must not exist yet
snapshot_l273 ==
  /\ spc = "l273"
  /\ SRan(<<Cmd("snap list", "src", volume, NoSnap, NoSnap, TRUE)>>)
  /\ IF now(day) \in Range(snap_list_names(srcSnaps, volume))
     THEN /\ SLogged(<<Error("Image already has snapshot", volume)>>)
          /\ snapshot_continue
     ELSE /\ spc' = IF mounted(volume) THEN "l278" ELSE "l279"
          /\ UNCHANGED <<sidx, sout>>
  /\ UNCHANGED <<ssingle, smounted, sfrozen, fsfrozen,
                 clusterVars, clockVars, configVars, replVars, checkVars>>

\* mutant of freeze: frozen is set before the mount state is looked at
freeze_flag_first ==
  /\ spc = "l278"
  /\ sfrozen' = [sfrozen EXCEPT ![volume] = TRUE]
  /\ IF ~mounted(volume)
     THEN /\ VolumeException("Cannot freeze not mounted volume")
          /\ UNCHANGED <<fsfrozen, scmds>>
     ELSE \/ /\ ~fsfrozen[volume]
             /\ fsfrozen' = [fsfrozen EXCEPT ![volume] = TRUE]
             /\ SRan(<<Cmd("fsfreeze --freeze", "host", volume, NoSnap, NoSnap, TRUE)>>)
             /\ spc' = "l279"
             /\ UNCHANGED <<sidx, sout>>
          \/ /\ UNCHANGED fsfrozen
             /\ SRan(<<Cmd("fsfreeze --freeze", "host", volume, NoSnap, NoSnap, FALSE)>>)
             /\ spc' = "l279"
             /\ UNCHANGED <<sidx, sout>>
          \/ /\ UNCHANGED <<fsfrozen, scmds>>
             /\ Raised
  /\ UNCHANGED <<ssingle, smounted, clusterVars, clockVars, configVars, replVars, checkVars>>

\* lines 237-241, 278: volume.freeze(); frozen is set before fsfreeze runs
freeze ==
  /\ spc = "l278"
  /\ IF ~mounted(volume)
     THEN /\ VolumeException("Cannot freeze not mounted volume")
          /\ UNCHANGED <<sfrozen, fsfrozen, scmds>>
     ELSE /\ sfrozen' = [sfrozen EXCEPT ![volume] = TRUE]
          /\ \/ /\ ~fsfrozen[volume]
                /\ fsfrozen' = [fsfrozen EXCEPT ![volume] = TRUE]
                /\ SRan(<<Cmd("fsfreeze --freeze", "host", volume, NoSnap, NoSnap, TRUE)>>)
                /\ spc' = "l279"
                /\ UNCHANGED <<sidx, sout>>
             \/ /\ UNCHANGED fsfrozen
                /\ SRan(<<Cmd("fsfreeze --freeze", "host", volume, NoSnap, NoSnap, FALSE)>>)
                /\ spc' = "l279"
                /\ UNCHANGED <<sidx, sout>>
             \/ /\ UNCHANGED <<fsfrozen, scmds>>
                /\ Raised
  /\ UNCHANGED <<ssingle, smounted, clusterVars, clockVars, configVars, replVars, checkVars>>

\* lines 107-108, 279: ceph_prod.snap_create(volume.image, Stamp().now())
snap_create ==
  /\ spc = "l279"
  /\ \/ /\ now(day) \notin Range(snap_list_names(srcSnaps, volume))
        /\ srcSnaps' = [srcSnaps EXCEPT ![volume] = Append(@, now(day))]
        /\ SRan(<<Cmd("snap create", "src", volume, now(day), NoSnap, TRUE)>>)
        /\ IF mounted(volume)
           THEN spc' = "l281" /\ UNCHANGED sidx
           ELSE snapshot_continue
        /\ UNCHANGED sout
     \/ /\ UNCHANGED srcSnaps
        /\ SRan(<<Cmd("snap create", "src", volume, now(day), NoSnap, FALSE)>>)
        /\ IF mounted(volume)
           THEN spc' = "l281" /\ UNCHANGED sidx
           ELSE snapshot_continue
        /\ UNCHANGED sout
     \/ /\ UNCHANGED <<srcSnaps, scmds>>
        /\ Raised
  /\ UNCHANGED <<ssingle, smounted, sfrozen, fsfrozen, dstImages, dstSnaps,
                 clockVars, configVars, replVars, checkVars>>

\* lines 243-247, 281: volume.unfreeze(); frozen is reset after fsfreeze ran
unfreeze ==
  /\ spc = "l281"
  /\ IF ~mounted(volume)
     THEN /\ VolumeException("Cannot unfreeze not mounted volume")
          /\ UNCHANGED <<sfrozen, fsfrozen, scmds>>
     ELSE \/ /\ fsfrozen' = [fsfrozen EXCEPT ![volume] = FALSE]
             /\ SRan(<<Cmd("fsfreeze --unfreeze", "host", volume, NoSnap, NoSnap,
                           fsfrozen[volume])>>)
             /\ sfrozen' = [sfrozen EXCEPT ![volume] = FALSE]
             /\ snapshot_continue
             /\ UNCHANGED sout
          \/ /\ fsfrozen[volume]
             /\ UNCHANGED fsfrozen
             /\ SRan(<<Cmd("fsfreeze --unfreeze", "host", volume, NoSnap, NoSnap, FALSE)>>)
             /\ sfrozen' = [sfrozen EXCEPT ![volume] = FALSE]
             /\ snapshot_continue
             /\ UNCHANGED sout
          \/ /\ UNCHANGED <<sfrozen, fsfrozen, scmds>>
             /\ Raised
  /\ UNCHANGED <<ssingle, smounted, clusterVars, clockVars, configVars, replVars, checkVars>>

\* lines 213-217: the interpreter ends after a traceback; Volume.__del__
\* of the volume left with frozen set runs fsfreeze --unfreeze, or it is
\* not called at all
__del__ ==
  /\ spc = "raised"
  /\ spc' = "exited"
  /\ \/ /\ sfrozen[volume]
        /\ fsfrozen' = [fsfrozen EXCEPT ![volume] = FALSE]
        /\ SRan(<<Cmd("fsfreeze --unfreeze", "host", volume, NoSnap, NoSnap,
                      fsfrozen[volume])>>)
     \/ UNCHANGED <<fsfrozen, scmds>>
  /\ UNCHANGED <<sidx, ssingle, smounted, sfrozen, sout,
                 clusterVars, clockVars, configVars, replVars, checkVars>>

snapshot_step ==
  \/ snapshot_next
  \/ snapshot_finish
  \/ snapshot_l273
  \/ freeze
  \/ snap_create
  \/ unfreeze
  \/ __del__

\* ----------------------------------------------------------------- clock
NoRun ==
  /\ \A p \in Procs : rpc[p] \in {"idle", "done"}
  /\ cpc \in {"idle", "exited"}
  /\ spc \in {"idle", "done", "exited"}

\* midnight passes between two runs
TickDay ==
  /\ NoRun
  /\ day < MaxDay
  /\ day' = day + 1
  /\ tod' = FirstHour
  /\ UNCHANGED <<configVars, clusterVars, replVars, checkVars, snapVars>>

\* the time of day advances
TickTime ==
  /\ tod < LastHour
  /\ tod' = tod + 1
  /\ UNCHANGED <<day, configVars, clusterVars, replVars, checkVars, snapVars>>

\* ------------------------------------------------------------------ Init
\* the switches as the script sets them
InitConfig ==
  /\ stamp_day_after = TRUE
  /\ snapshot_mounted_only = TRUE

InitClock ==
  /\ day = FirstDay
  /\ tod = FirstHour

InitClusters ==
  /\ srcSnaps \in [Images -> Histories]
  /\ dstImages \in SUBSET Images
  /\ dstSnaps \in [Images -> Histories]
  /\ \A im \in Images \ dstImages : dstSnaps[im] = <<>>

InitReplicate ==
  /\ rpc = [p \in Procs |-> "idle"]
  /\ ridx = [p \in Procs |-> 1]
  /\ rsingle = [p \in Procs |-> NoImage]
  /\ rerrors = [p \in Procs |-> FALSE]
  /\ rcmds = [p \in Procs |-> <<>>]
  /\ rout = [p \in Procs |-> <<>>]

InitCheck ==
  /\ cpc = "idle"
  /\ cidx = 1
  /\ csingle = NoImage
  /\ cerrors = <<>>
  /\ ccmds = <<>>
  /\ cprint = <<>>
  /\ cexit = NoExit

InitSnapshot ==
  /\ spc = "idle"
  /\ sidx = 1
  /\ ssingle = NoImage
  /\ smounted = [im \in Images |-> FALSE]
  /\ sfrozen = [im \in Images |-> FALSE]
  /\ fsfrozen = [im \in Images |-> FALSE]
  /\ scmds = <<>>
  /\ sout = <<>>

Init == InitConfig /\ InitClock /\ InitClusters /\ InitReplicate /\ InitCheck /\ InitSnapshot

\* one replicate invocation at a time, run after run
Next ==
  \/ \E single_image \in Images \cup {NoImage} : replicate(1, single_image)
  \/ replicate_step(1)
  \/ TickDay

Spec == Init /\ [][Next]_vars

\* one check invocation, at any time of the day
NextCheck ==
  \/ \E single_image \in Images \cup {NoImage} : check(single_image)
  \/ check_step
  \/ TickTime

SpecCheck == Init /\ [][NextCheck]_vars

\* one snapshot invocation at a time, run after run
NextSnapshot ==
  \/ \E single_image \in Images \cup {NoImage} : snapshot(single_image)
  \/ snapshot_step
  \/ TickDay

\* the snapshot action talks to the production cluster only
InitProduction == Init /\ dstImages = {}

SpecSnapshot == InitProduction /\ [][NextSnapshot]_vars

\* two replicate invocations on the same host at the same time
NextConcurrent ==
  \E p \in Procs :
    \/ rpc[p] = "idle" /\ replicate(p, NoImage)
    \/ replicate_step(p)

SpecConcurrent == Init /\ [][NextConcurrent]_vars

\* --------------------------------------------- snapshot and replicate runs
\* either value of the day-boundary switch
InitAnyConfig ==
  /\ stamp_day_after \in BOOLEAN
  /\ snapshot_mounted_only = TRUE

\* a new deployment: the images are mapped, nothing has been snapshotted
\* or replicated yet; the first run takes place the day before FirstDay
InitFresh ==
  /\ InitAnyConfig
  /\ day = FirstDay - 1
  /\ tod = FirstHour
  /\ srcSnaps = [im \in Images |-> <<>>]
  /\ dstImages = {}
  /\ dstSnaps = [im \in Images |-> <<>>]
  /\ InitReplicate
  /\ InitCheck
  /\ InitSnapshot

\* lines 287-292: the replicate action is over and the interpreter exits;
\* nothing of the invocation is left
replicate_exit(p) ==
  /\ rpc[p] = "done"
  /\ rpc' = [rpc EXCEPT ![p] = "idle"]
  /\ ridx' = [ridx EXCEPT ![p] = 1]
  /\ rsingle' = [rsingle EXCEPT ![p] = NoImage]
  /\ rerrors' = [rerrors EXCEPT ![p] = FALSE]
  /\ rcmds' = [rcmds EXCEPT ![p] = <<>>]
  /\ rout' = [rout EXCEPT ![p] = <<>>]
  /\ UNCHANGED <<clusterVars, clockVars, configVars, checkVars, snapVars>>

\* lines 263-285: the snapshot action is over and the interpreter exits;
\* the Volume objects are gone, a filesystem left frozen stays frozen
snapshot_exit ==
  /\ spc \in {"done", "exited"}
  /\ spc' = "idle"
  /\ sidx' = 1
  /\ ssingle' = NoImage
  /\ smounted' = [im \in Images |-> FALSE]
  /\ sfrozen' = [im \in Images |-> FALSE]
  /\ scmds' = <<>>
  /\ sout' = <<>>
  /\ UNCHANGED <<fsfrozen, clusterVars, clockVars, configVars, replVars, checkVars>>

\* no process of the script exists
NoProcess ==
  /\ \A p \in Procs : rpc[p] = "idle"
  /\ cpc = "idle"
  /\ spc = "idle"

\* the snapshot action and the replicate action, started by the scheduler
\* day after day, one process at a time
NextBackup ==
  \/ NoProcess /\ \E single_image \in Images \cup {NoImage} : snapshot(single_image)
  \/ snapshot_step
  \/ snapshot_exit
  \/ NoProcess /\ \E single_image \in Images \cup {NoImage} : replicate(1, single_image)
  \/ replicate_step(1)
  \/ replicate_exit(1)
  \/ NoProcess /\ TickDay

SpecBackup == InitFresh /\ [][NextBackup]_vars

\* ------------------------------------------------- Volume called directly
\* the snapshot action with either value of snapshot_mounted_only, and a
\* caller that has built the Volume objects and calls freeze() or
\* unfreeze() on one of them whatever its mount state
InitVolume ==
  /\ stamp_day_after = TRUE
  /\ snapshot_mounted_only \in BOOLEAN
  /\ InitClock
  /\ srcSnaps \in [Images -> Histories]
  /\ dstImages = {}
  /\ dstSnaps = [im \in Images |-> <<>>]
  /\ InitReplicate
  /\ InitCheck
  /\ \/ InitSnapshot
     \/ /\ spc \in {"l278", "l281"}
        /\ sidx \in 1 .. Len(ImageList)
        /\ ssingle = NoImage
        /\ smounted \in [Images -> BOOLEAN]
        /\ sfrozen = [im \in Images |-> FALSE]
        /\ fsfrozen = [im \in Images |-> FALSE]
        /\ scmds = <<>>
        /\ sout = <<>>

NextVolume ==
  \/ \E single_image \in Images \cup {NoImage} : snapshot(single_image)
  \/ snapshot_step

SpecVolume == InitVolume /\ [][NextVolume]_vars

\* ============================================================== properties
\* the step ends p's attempt on image(p): an exception was handled or the
\* transfer returned
EndsAttempt(p) ==
  /\ rpc[p] \notin {"idle", "loop", "done"}
  /\ ridx'[p] = ridx[p] + 1

\* the rbd commands p runs in the step
NewCmds(p) == SubSeq(rcmds'[p], Len(rcmds[p]) + 1, Len(rcmds'[p]))

IssuedTransfer(p) ==
  \E i \in DOMAIN NewCmds(p) : NewCmds(p)[i].cmd \in {"export-diff", "import-diff"}

IssuedFull(p) ==
  \E i \in DOMAIN NewCmds(p) :
    NewCmds(p)[i].cmd = "export-diff" /\ NewCmds(p)[i].from = NoSnap

IssuedIncremental(p) ==
  \E i \in DOMAIN NewCmds(p) :
    NewCmds(p)[i].cmd = "export-diff" /\ NewCmds(p)[i].from # NoSnap

\* the step logs a per-volume error and the run counts as having errors
CountedError(p) ==
  /\ rerrors'[p]
  /\ Len(rout'[p]) = Len(rout[p]) + 1
  /\ Last(rout'[p]).level = "error"
  /\ Last(rout'[p]).image = image(p)

SrcLabels(im) == Range(srcSnaps[im])
DstLabels(im) == Range(dstSnaps[im])

\* C1 as stated: Incremental is chosen iff the destination's latest label
\* is in the source history and is not the source's latest label, with
\* base = destination's latest and target = source's latest.
C1_Original ==
  [][\A p \in Procs : EndsAttempt(p) =>
       LET im == image(p)
           cond == /\ dstSnaps[im] # <<>>
                   /\ Last(dstSnaps[im]) \in SrcLabels(im)
                   /\ Last(dstSnaps[im]) # Last(srcSnaps[im])
       IN /\ IssuedIncremental(p) <=> cond
          /\ IssuedIncremental(p) =>
               /\ NewCmds(p)[1].from = Last(dstSnaps[im])
               /\ NewCmds(p)[1].snap = Last(srcSnaps[im])]_vars

\* C1 amended: an incremental transfer is issued for a volume iff today's
\* label is in the source history and not in the destination history and
\* yesterday's label is in both histories; its base is yesterday's label
\* and its target today's label.
C1_IncrementalIffDatedLabels ==
  [][\A p \in Procs : EndsAttempt(p) =>
       LET im == image(p)
           cond == /\ today(day) \in SrcLabels(im)
                   /\ today(day) \notin DstLabels(im)
                   /\ yesterday(day) \in SrcLabels(im)
                   /\ yesterday(day) \in DstLabels(im)
       IN /\ IssuedIncremental(p) <=> cond
          /\ IssuedIncremental(p) =>
               /\ Len(NewCmds(p)) = 2
               /\ NewCmds(p)[1] = Cmd("export-diff", "src", im, today(day),
                                      yesterday(day), NewCmds(p)[1].ok)
               /\ NewCmds(p)[2].cmd = "import-diff"
               /\ NewCmds(p)[2].image = im]_vars

\* C1 witness: source [2024-01-01, 2024-01-02], destination [2024-01-01]:
\* the diff from 2024-01-01 to 2024-01-02 has been transferred
C1_Witness ==
  /\ day = 4
  /\ srcSnaps["a"] = <<<<2024, 1, 1>>, <<2024, 1, 2>>>>
  /\ dstSnaps["a"] = <<<<2024, 1, 1>>, <<2024, 1, 2>>>>
  /\ \E i \in DOMAIN rcmds[1] :
       rcmds[1][i] = Cmd("export-diff", "src", "a", <<2024, 1, 2>>, <<2024, 1, 1>>, TRUE)

\* C2 as stated: an empty destination history gets a Full transfer whose
\* target is the source's latest label, whatever that label is.
C2_Original ==
  [][\A p \in Procs :
       (/\ EndsAttempt(p)
        /\ image(p) \in dstImages
        /\ dstSnaps[image(p)] = <<>>
        /\ srcSnaps[image(p)] # <<>>) =>
          /\ IssuedFull(p)
          /\ NewCmds(p)[1].snap = Last(srcSnaps[image(p)])]_vars

\* C2 amended: for a volume whose destination history is empty a Full
\* transfer (no base) is issued iff the source history holds today's label
\* and the destination image exists or was created; its target is today's
\* label.  Otherwise the volume ends with a per-volume error.
C2_EmptyDestinationFullToday ==
  [][\A p \in Procs :
       (EndsAttempt(p) /\ dstSnaps[image(p)] = <<>>) =>
          LET im == image(p)
          IN /\ IssuedFull(p) <=> (today(day) \in SrcLabels(im) /\ im \in dstImages)
             /\ IssuedFull(p) =>
                  /\ Len(NewCmds(p)) = 2
                  /\ NewCmds(p)[1] = Cmd("export-diff", "src", im, today(day),
                                         NoSnap, NewCmds(p)[1].ok)
                  /\ NewCmds(p)[2].cmd = "import-diff"
                  /\ NewCmds(p)[2].image = im
             /\ ~IssuedIncremental(p)
             /\ ~IssuedFull(p) => CountedError(p)]_vars

\* C2 witness: the destination history was empty, the source's latest
\* label is newer than today's, and today's label was transferred in full
C2_Witness ==
  /\ day = 3
  /\ srcSnaps["a"] = <<<<2024, 1, 1>>, <<2024, 1, 2>>>>
  /\ dstSnaps["a"] = <<<<2024, 1, 1>>>>
  /\ \E i \in DOMAIN rcmds[1] :
       rcmds[1][i] = Cmd("export-diff", "src", "a", <<2024, 1, 1>>, NoSnap, TRUE)

SameLatest(im) ==
  /\ dstSnaps[im] # <<>>
  /\ srcSnaps[im] # <<>>
  /\ Last(dstSnaps[im]) = Last(srcSnaps[im])

\* C3 as stated: when both latest labels are equal there is no transfer
\* and the volume does not count as an error.
C3_Original ==
  [][\A p \in Procs : (EndsAttempt(p) /\ SameLatest(image(p))) =>
       /\ ~IssuedTransfer(p)
       /\ rerrors'[p] = rerrors[p]
       /\ rout'[p] = rout[p]]_vars

\* C3 amended: when both latest labels are equal and not newer than today's
\* label there is no transfer, and the volume is logged as a per-volume
\* error and counts as an error of the run.
C3_SameLatestIsError ==
  [][\A p \in Procs :
       (/\ EndsAttempt(p)
        /\ SameLatest(image(p))
        /\ ~LabelLess(today(day), Last(srcSnaps[image(p)]))) =>
          /\ ~IssuedTransfer(p)
          /\ CountedError(p)
          /\ UNCHANGED clusterVars]_vars

\* C3 witness: both histories end with today's label and the attempt ended
\* with the error of line 161
C3_Witness ==
  /\ rpc[1] = "loop"
  /\ ridx[1] = 2
  /\ rsingle[1] = NoImage
  /\ SameLatest("a")
  /\ Last(srcSnaps["a"]) = today(day)
  /\ Last(rout[1]) = Error("Destination image already has today's snapshot", "a")

Diverged(im) ==
  /\ dstSnaps[im] # <<>>
  /\ Last(dstSnaps[im]) \notin SrcLabels(im)

\* C4 as stated: a destination whose latest label is not in the source
\* history gets a Full transfer of the source's latest label.
C4_Original ==
  [][\A p \in Procs :
       (EndsAttempt(p) /\ Diverged(image(p)) /\ srcSnaps[image(p)] # <<>>) =>
          /\ IssuedFull(p)
          /\ NewCmds(p)[1].snap = Last(srcSnaps[image(p)])]_vars

\* C4 amended: a destination whose latest label is not in the source
\* history never gets a Full transfer: the volume ends with a per-volume
\* error, unless today's label is missing on the destination only and
\* yesterday's label is on both sides, which gives the incremental transfer.
C4_DivergedNeverFull ==
  [][\A p \in Procs : (EndsAttempt(p) /\ Diverged(image(p))) =>
       /\ ~IssuedFull(p)
       /\ ~IssuedIncremental(p) => (CountedError(p) /\ UNCHANGED clusterVars)
       /\ (yesterday(day) \notin DstLabels(image(p))) => ~IssuedIncremental(p)]_vars

\* C4 witness: source [2024-01-01, 2024-01-02], destination [2023-12-31]:
\* the attempt ended with the error of line 140
C4_Witness ==
  /\ day = 4
  /\ rpc[1] = "loop"
  /\ ridx[1] = 2
  /\ srcSnaps["a"] = <<<<2024, 1, 1>>, <<2024, 1, 2>>>>
  /\ dstSnaps["a"] = <<<<2023, 12, 31>>>>
  /\ Last(rout[1]) = Error("Destination image doesn't have yesterday's snapshot", "a")

\* ---------------------------------------------------------------- C5
\* the lock-marker operations p has performed for image im; rcmds holds
\* every external operation of the invocation
LockOps(p, im, op) ==
  {k \in DOMAIN rcmds[p] : rcmds[p][k].cmd = op /\ rcmds[p][k].image = im}

\* the images whose attempt p has begun, in order
AttemptedImages(p) ==
  LET begun == SelectSeq(rout[p], LAMBDA l : l.msg = "Replicating image")
  IN [i \in 1 .. Len(begun) |-> begun[i].image]

\* p's attempt on ImageList[i] has ended
AttemptOver(p, i) ==
  /\ ImageList[i] \in Range(AttemptedImages(p))
  /\ ridx[p] > i

\* C5 as stated: once the attempt on a volume has ended the invocation has
\* acquired the volume's lock exactly once and released it exactly once,
\* the release after the acquisition.
C5_Original ==
  \A p \in Procs : \A i \in 1 .. Len(ImageList) :
    AttemptOver(p, i) =>
      /\ Cardinality(LockOps(p, ImageList[i], "lock")) = 1
      /\ Cardinality(LockOps(p, ImageList[i], "unlock")) = 1
      /\ \A k \in LockOps(p, ImageList[i], "lock") :
           \A l \in LockOps(p, ImageList[i], "unlock") : k < l

\* ---------------------------------------------------------------- C6
\* p is inside a replication attempt: between the first query of the
\* volume's state and the end of its transfer
InAttempt(p) == rpc[p] \notin {"idle", "loop", "done"}

\* C6 as stated: two concurrent replicate invocations are never both
\* inside an attempt on the same volume.
C6_Original ==
  \A p \in Procs : \A q \in Procs :
    (p # q /\ InAttempt(p) /\ InAttempt(q)) => image(p) # image(q)

\* ---------------------------------------------------------------- C7
\* the snapshot action is done with the volume ImageList[i]
VolumeOver(i) ==
  \/ spc \in {"loop", "done"} /\ sidx > i
  \/ spc = "exited"

Unfrozen(im, k) ==
  \E l \in DOMAIN scmds :
    l > k /\ scmds[l].cmd = "fsfreeze --unfreeze" /\ scmds[l].image = im

\* C7 as stated: once the action is done with a volume, every freeze of it
\* that succeeded has been followed by an unfreeze call, and while the
\* action goes on the volume's frozen flag is false again.
C7_Original ==
  \A i \in 1 .. Len(ImageList) :
    VolumeOver(i) =>
      /\ \A k \in DOMAIN scmds :
           (/\ scmds[k].cmd = "fsfreeze --freeze"
            /\ scmds[k].image = ImageList[i]
            /\ scmds[k].ok) => Unfrozen(ImageList[i], k)
      /\ spc # "exited" => ~sfrozen[ImageList[i]]

\* ---------------------------------------------------------------- C8
\* the images of the first k entries of the listing that are in scope
RECURSIVE ScopedImages(_, _)
ScopedImages(p, k) ==
  IF k = 0 THEN <<>>
  ELSE IF rsingle[p] # NoImage /\ ImageList[k] # rsingle[p]
       THEN ScopedImages(p, k - 1)
       ELSE Append(ScopedImages(p, k - 1), ImageList[k])

\* the position of an image in the listing
IndexOf(im) == CHOOSE i \in 1 .. Len(ImageList) : ImageList[i] = im

\* the attempt on im met a per-volume failure: an exception was handled,
\* or a create or transfer command failed
Failed(p, im) ==
  \/ \E i \in DOMAIN rout[p] : rout[p][i].level = "error" /\ rout[p][i].image = im
  \/ \E k \in DOMAIN rcmds[p] : rcmds[p][k].image = im /\ ~rcmds[p][k].ok

\* C8: a per-volume failure (missing snapshot, failed creation, failed
\* transfer) ends the attempt on that volume only: at any moment the images
\* attempted so far are the images in scope up to the current entry of the
\* listing, in listing order, whatever failed before; an invocation that
\* has not ended can take its next step; it ends past the last entry of the
\* listing with the summary line; a handled exception leaves it in the
\* loop, past the failed entry.
C8_FailureAbortsVolumeOnly ==
  \A p \in Procs : rpc[p] # "idle" =>
    /\ AttemptedImages(p) =
         ScopedImages(p, IF rpc[p] \in {"loop", "done"}
                         THEN ridx[p] - 1 ELSE ridx[p])
    /\ rpc[p] = "done" =>
         /\ ridx[p] = Len(ImageList) + 1
         /\ Last(rout[p]).msg \in {"Finished replication",
                                   "Finished replication (with errors)"}
    /\ rpc[p] # "done" => ENABLED replicate_step(p)
    /\ \A im \in Images :
         (Failed(p, im) /\ Last(rout[p]).level = "error" /\ Last(rout[p]).image = im)
            => (rpc[p] = "loop" /\ ridx[p] > IndexOf(im))

\* C8 witness: the attempt on "a" failed, "b" was replicated afterwards and
\* the run printed its summary
C8_Witness ==
  /\ rpc[1] = "done"
  /\ rsingle[1] = NoImage
  /\ \E i \in DOMAIN rout[1] : \E j \in DOMAIN rout[1] :
       /\ i < j
       /\ rout[1][i].level = "error" /\ rout[1][i].image = "a"
       /\ rout[1][j] = Info("Doing full replication", "b")
  /\ \E k \in DOMAIN rcmds[1] :
       rcmds[1][k].cmd = "import-diff" /\ rcmds[1][k].image = "b" /\ rcmds[1][k].ok
  /\ Last(rout[1]) = Info("Finished replication (with errors)", NoImage)

\* ---------------------------------------------------------------- C9
CheckScoped(im) == csingle = NoImage \/ im = csingle

YesterdayOnBoth(im) ==
  /\ yesterday(day) \in SrcLabels(im)
  /\ yesterday(day) \in DstLabels(im)

TodayOnBoth(im) ==
  /\ im \in dstImages
  /\ today(day) \in SrcLabels(im)
  /\ today(day) \in DstLabels(im)

EndsCheck == cpc \in {"l179", "l181", "l185", "l187", "l189"} /\ cpc' # cpc

\* the step reports cimage as OK
ReportsOK == cpc' = "loop" /\ cerrors' = cerrors

\* C10: the rule is chosen by the time of day, the threshold time itself
\* taking the at/after rule; before, an image is OK iff yesterday's label
\* is on both clusters; at/after, iff the image is on the backup cluster
\* and today's label is on both clusters.
C10_ThresholdPolicy ==
  [][/\ (cpc = "loop" /\ cpc' # cpc /\ cpc' # "exited") =>
          /\ tod < check_threshold_time => cpc' = "l179"
          /\ tod >= check_threshold_time => cpc' = "l185"
     /\ (EndsCheck /\ cpc' \notin {"l181", "l187", "l189"}) =>
          IF cpc \in {"l179", "l181"}
          THEN ReportsOK <=> YesterdayOnBoth(cimage)
          ELSE ReportsOK <=> TodayOnBoth(cimage)]_vars

\* C10 witness: at the threshold time the image "a", which has today's
\* label on both clusters but not yesterday's, was reported OK
C10_Witness ==
  /\ tod = 8
  /\ cpc = "loop"
  /\ cidx = 2
  /\ csingle = NoImage
  /\ cerrors = <<>>
  /\ TodayOnBoth("a")
  /\ ~YesterdayOnBoth("a")
  /\ \E k \in DOMAIN ccmds : ccmds[k].cmd = "list" /\ ccmds[k].cluster = "dst"

\* ---------------------------------------------------------------- C11
\* the labels at the last two positions of a history
TwoMostRecent(h) == {h[i] : i \in {j \in DOMAIN h : j >= Len(h) - 1}}

\* check is in the branch taken when line 177 found the time of day to be
\* before the threshold time
BeforeThreshold == cpc \in {"l179", "l181"}

\* the label check looks for in the branch it is in
ExpectedLabel == IF BeforeThreshold THEN yesterday(day) ELSE today(day)

\* C11 as stated: whatever the time of day, check reports an image in scope
\* OK iff the image exists on the backup cluster and the latest label of
\* its backup history is one of the two most recent labels of its
\* production history.
C11_Original ==
  [][(EndsCheck /\ cpc' \notin {"l181", "l187", "l189"}) =>
       (ReportsOK <=>
          /\ cimage \in dstImages
          /\ dstSnaps[cimage] # <<>>
          /\ Last(dstSnaps[cimage]) \in TwoMostRecent(srcSnaps[cimage]))]_vars

\* C11 amended: check has the threshold policy only, and its verdict on an
\* image in scope depends on the time of day read at line 177: the image
\* is reported OK iff the label expected at that time (yesterday's before
\* the threshold time, today's from the threshold time on) is in the
\* production and in the backup history and, from the threshold time on,
\* the image exists on the backup cluster.  The latest labels play no
\* part.  An image that is not OK is an entry of errors that names the
\* expected label or, before the threshold time with the image missing on
\* the backup cluster, the run ends with a traceback.
C11_VerdictByExpectedLabel ==
  [][(EndsCheck /\ cpc' \notin {"l181", "l187", "l189"}) =>
       /\ ReportsOK <=>
            /\ ExpectedLabel \in SrcLabels(cimage)
            /\ ExpectedLabel \in DstLabels(cimage)
            /\ ~BeforeThreshold => cimage \in dstImages
       /\ ~ReportsOK =>
            \/ /\ cpc' = "loop"
               /\ Len(cerrors') = Len(cerrors) + 1
               /\ Last(cerrors').image = cimage
               /\ Last(cerrors').snap \in {ExpectedLabel, NoSnap}
            \/ /\ cpc' = "raised"
               /\ BeforeThreshold
               /\ cimage \notin dstImages]_vars

\* C11 witness: "a" and "b" have the same histories on both clusters; "a"
\* was examined before the threshold time and passed, "b" was examined at
\* the threshold time and is an error
C11_Witness ==
  /\ cpc = "exited"
  /\ csingle = NoImage
  /\ {"a", "b"} \subseteq dstImages
  /\ srcSnaps["a"] = srcSnaps["b"]
  /\ dstSnaps["a"] = dstSnaps["b"]
  /\ Len(cerrors) = 1
  /\ cerrors[1] = CheckError("b", "missing snapshot on backup cluster", today(day))

\* ---------------------------------------------------------------- C12
\* the positions in p's log of the commands c on image im
CmdIndexes(p, im, c) ==
  {k \in DOMAIN rcmds[p] : rcmds[p][k].cmd = c /\ rcmds[p][k].image = im}

\* the image of p's attempt was missing on the backup cluster when the
\* attempt began: it still is, or the attempt has run a create for it
DstWasMissing(p) ==
  \/ image(p) \notin dstImages
  \/ CmdIndexes(p, image(p), "create") # {}

\* C12 as stated: an attempt on a volume that is missing on the
\* destination creates it with the minimal size and then transfers in
\* full the source's latest snapshot; no import goes to a missing volume.
C12_Original ==
  [][\A p \in Procs :
       /\ (EndsAttempt(p) /\ DstWasMissing(p) /\ srcSnaps[image(p)] # <<>>) =>
            /\ \E k \in CmdIndexes(p, image(p), "create") : rcmds[p][k].size = 1
            /\ IssuedFull(p)
            /\ NewCmds(p)[1].snap = Last(srcSnaps[image(p)])
       /\ IssuedTransfer(p) => image(p) \in dstImages]_vars

\* C12 amended: an attempt on a volume that is missing on the destination
\* runs a create, once and with size 1, iff the source history holds
\* today's label; the transfer follows iff the created volume is then
\* listed, and it is Full with target today's label (source [2024-01-01],
\* today's label 2024-01-01, destination absent: create, then Full with
\* target 2024-01-01).  Otherwise the volume ends with a per-volume
\* error and no transfer.  No import goes to a volume that is missing.
C12_CreateThenFullToday ==
  [][\A p \in Procs :
       /\ (EndsAttempt(p) /\ DstWasMissing(p)) =>
            LET im == image(p)
                creates == CmdIndexes(p, im, "create")
            IN /\ creates # {} <=> today(day) \in SrcLabels(im)
               /\ Cardinality(creates) <= 1
               /\ \A k \in creates :
                    /\ rcmds[p][k] = CreateCmd(im, 1, rcmds[p][k].ok)
                    /\ rcmds[p][k].ok <=> im \in dstImages
               /\ IssuedFull(p) <=> (creates # {} /\ im \in dstImages)
               /\ IssuedFull(p) =>
                    /\ Len(NewCmds(p)) = 2
                    /\ NewCmds(p)[1] = Cmd("export-diff", "src", im, today(day),
                                           NoSnap, NewCmds(p)[1].ok)
                    /\ NewCmds(p)[2].cmd = "import-diff"
                    /\ NewCmds(p)[2].image = im
               /\ ~IssuedIncremental(p)
               /\ ~IssuedFull(p) => (CountedError(p) /\ dstSnaps' = dstSnaps)
       /\ IssuedTransfer(p) => image(p) \in dstImages]_vars

\* C12 witness: source [2024-01-01], destination absent: the volume was
\* created with size 1 and 2024-01-01 was then transferred in full
C12_Witness ==
  /\ srcSnaps["a"] = <<<<2024, 1, 1>>>>
  /\ dstSnaps["a"] = <<<<2024, 1, 1>>>>
  /\ \E k \in DOMAIN rcmds[1] : \E j \in DOMAIN rcmds[1] :
       /\ k < j
       /\ rcmds[1][k] = CreateCmd("a", 1, TRUE)
       /\ rcmds[1][j] = Cmd("export-diff", "src", "a", <<2024, 1, 1>>, NoSnap, TRUE)

\* ---------------------------------------------------------------- C13
\* p is in _replicate_snap_diff
InDiff(p) == rpc[p] \in {"l137", "l139", "l141"}

\* C13: an export with a base snapshot is issued only when the base is in
\* the production and in the backup history of the volume at that moment,
\* and only from _replicate_snap_diff; an attempt that ends in
\* _replicate_snap_diff with the base (yesterday's label) missing from
\* either history ends with a per-volume error, no export or import and
\* both clusters as they were.
C13_BaseExists ==
  [][\A p \in Procs :
       /\ IssuedIncremental(p) =>
            /\ InDiff(p)
            /\ NewCmds(p)[1].from = yesterday(day)
            /\ NewCmds(p)[1].from \in SrcLabels(image(p))
            /\ NewCmds(p)[1].from \in DstLabels(image(p))
       /\ (/\ EndsAttempt(p)
           /\ InDiff(p)
           /\ \/ yesterday(day) \notin SrcLabels(image(p))
              \/ yesterday(day) \notin DstLabels(image(p))) =>
            /\ CountedError(p)
            /\ ~IssuedTransfer(p)
            /\ CmdIndexes(p, image(p), "export-diff") = {}
            /\ CmdIndexes(p, image(p), "import-diff") = {}
            /\ UNCHANGED clusterVars]_vars

\* C13 witness: the backup history holds yesterday's label, the production
\* history does not: the attempt ended with the error of line 138 and
\* without a transfer
C13_Witness ==
  /\ rpc[1] = "loop"
  /\ ridx[1] = 2
  /\ rsingle[1] = NoImage
  /\ yesterday(day) \in DstLabels("a")
  /\ yesterday(day) \notin SrcLabels("a")
  /\ Last(rout[1]) = Error("Source image doesn't have yesterday's snapshot", "a")
  /\ CmdIndexes(1, "a", "export-diff") = {}

\* ---------------------------------------------------------------- C14
\* the snapshot action logged an error for a volume
SnapshotFailed == \E i \in DOMAIN sout : sout[i].level = "error"

\* C14 as stated: the summary line of a finished replicate run and of a
\* finished snapshot run names errors iff the attempt on some volume
\* failed during the run.
C14_Original ==
  /\ spc = "done" =>
       (Last(sout).msg = "Finished snapshot (with errors)" <=> SnapshotFailed)
  /\ \A p \in Procs : rpc[p] = "done" =>
       (Last(rout[p]).msg = "Finished replication (with errors)"
          <=> \E im \in Images : Failed(p, im))

\* ---------------------------------------------------------------- C15
\* the commands the snapshot action runs in the step
NewSCmds == SubSeq(scmds', Len(scmds) + 1, Len(scmds'))

\* C15: after every step of a snapshot or replicate run the snapshot
\* labels of each image are in increasing order, hence unique, on both
\* clusters; the snapshot action runs no snap create for a label the
\* production history holds and replicate runs no export / import for a
\* label the backup history holds.
C15_HistoriesIncrease ==
  [][/\ \A im \in Images :
          /\ IsIncreasing(srcSnaps'[im])
          /\ IsIncreasing(dstSnaps'[im])
     /\ \A i \in DOMAIN NewSCmds :
          NewSCmds[i].cmd = "snap create" =>
            /\ NewSCmds[i].image = volume
            /\ NewSCmds[i].snap \notin SrcLabels(volume)
     /\ \A p \in Procs : \A i \in DOMAIN NewCmds(p) :
          NewCmds(p)[i].cmd = "export-diff" =>
            NewCmds(p)[i].snap \notin DstLabels(image(p))]_vars

\* C15 witness: three snapshots were made of "a" on three days, two of
\* them are on the backup cluster, the second by an incremental transfer
\* one day after the snapshot, and a further snapshot run on the third
\* day was rejected
C15_Witness ==
  /\ stamp_day_after
  /\ Len(srcSnaps["a"]) = 3
  /\ Len(dstSnaps["a"]) = 2
  /\ Last(srcSnaps["a"]) = now(day)
  /\ Last(dstSnaps["a"]) = today(day)
  /\ sout # <<>>
  /\ Last(sout) = Error("Image already has snapshot", "a")

\* ---------------------------------------------------------------- C16
\* C16: on every date and with either value of the switch, today's label
\* is the label of the date itself without the offset and of the day
\* before with the 24 hour offset; yesterday's label is the label of the
\* day before today's; without the offset today's label is the label the
\* snapshot action uses on the same date, with the offset it is the label
\* the snapshot action used the day before; every process computes them
\* from the date and the switch alone: each snap create carries the label
\* of the date, each export today's label and no base or yesterday's.
C16_LabelsByDateAndOffset ==
  [][/\ today(day) = (IF stamp_day_after THEN PrevDate(now(day)) ELSE now(day))
     /\ yesterday(day) = PrevDate(today(day))
     /\ day' = day + 1 =>
          today(day') = (IF stamp_day_after THEN now(day) ELSE now(day'))
     /\ \A i \in DOMAIN NewSCmds :
          NewSCmds[i].cmd = "snap create" => NewSCmds[i].snap = now(day)
     /\ \A p \in Procs : \A i \in DOMAIN NewCmds(p) :
          NewCmds(p)[i].cmd = "export-diff" =>
            /\ NewCmds(p)[i].snap = today(day)
            /\ NewCmds(p)[i].from \in {NoSnap, yesterday(day)}]_vars

\* C16 witness: with the offset, replicate exports on 2024-01-02 the
\* snapshot 2024-01-01 made the day before, across the year boundary from
\* yesterday's label 2023-12-31
C16_Witness ==
  /\ stamp_day_after
  /\ now(day) = <<2024, 1, 2>>
  /\ yesterday(day) = <<2023, 12, 31>>
  /\ \E k \in DOMAIN rcmds[1] :
       rcmds[1][k] = Cmd("export-diff", "src", "a", <<2024, 1, 1>>, NoSnap, TRUE)
  /\ <<2024, 1, 1>> \in SrcLabels("a")

\* ---------------------------------------------------------------- C17
\* the step runs fsfreeze
IssuedFsfreeze ==
  \E i \in DOMAIN NewSCmds :
    NewSCmds[i].cmd \in {"fsfreeze --freeze", "fsfreeze --unfreeze"}

IssuedSnapCreate ==
  \E i \in DOMAIN NewSCmds : NewSCmds[i].cmd = "snap create"

\* C17: freeze() on a volume that is not mounted raises at once: no
\* command is run, frozen and the filesystem stay as they were, the error
\* is logged and the action goes on with the next volume.  The snapshot
\* action never reaches freeze() or unfreeze() with a volume that is not
\* mounted and never runs fsfreeze for one: such a volume is skipped
\* without a command when snapshot_mounted_only is set, and otherwise goes
\* from the check of line 273 to the snap create and from there to the
\* next volume.
C17_UnmountedNeverFrozen ==
  [][/\ (spc = "l278" /\ ~mounted(volume)) =>
          /\ NewSCmds = <<>>
          /\ UNCHANGED <<sfrozen, fsfrozen, smounted, clusterVars>>
          /\ sout' = Append(sout, Error("Cannot freeze not mounted volume", volume))
          /\ spc' = "loop"
          /\ sidx' = sidx + 1
     /\ (spc' \in {"l278", "l281"} /\ spc' # spc) => smounted'[ImageList[sidx']]
     /\ (spc \notin {"idle", "done", "exited", "raised"} /\ sidx <= Len(ImageList)
           /\ ~mounted(volume)) =>
          /\ ~IssuedFsfreeze
          /\ UNCHANGED <<sfrozen, fsfrozen>>
          /\ snapshot_mounted_only => (~IssuedSnapCreate /\ srcSnaps' = srcSnaps)
          /\ spc = "loop" =>
               IF snapshot_mounted_only \/ (ssingle # NoImage /\ volume # ssingle)
               THEN /\ spc' = "loop"
                    /\ sidx' = sidx + 1
                    /\ UNCHANGED <<scmds, sout>>
               ELSE spc' = "l273"
          /\ spc = "l273" => spc' \in {"l279", "loop"}
          /\ spc = "l279" => spc' \in {"loop", "raised"}]_vars

\* C17 witness: freeze() was called on "a", which is not mounted, and
\* failed without a command; the action went on to "b", not mounted
\* either, and with snapshot_mounted_only unset made its snapshot without
\* a freeze / unfreeze bracket
C17_Witness ==
  /\ ~snapshot_mounted_only
  /\ spc = "done"
  /\ ~smounted["a"]
  /\ ~smounted["b"]
  /\ \E i \in DOMAIN sout : sout[i] = Error("Cannot freeze not mounted volume", "a")
  /\ \E k \in DOMAIN scmds : scmds[k] = Cmd("snap create", "src", "b", now(day), NoSnap, TRUE)
  /\ \A k \in DOMAIN scmds :
       scmds[k].cmd \notin {"fsfreeze --freeze", "fsfreeze --unfreeze"}
  /\ \A im \in Images : ~sfrozen[im] /\ ~fsfrozen[im]

\* ---------------------------------------------------------------- C18
\* the rbd commands check runs in the step
NewCCmds == SubSeq(ccmds', Len(ccmds) + 1, Len(ccmds'))

\* C18: whatever the state of the two clusters and the time of day, every
\* command of a check run is an image listing or a snapshot listing, and
\* no step of the run changes the images or the snapshot histories of
\* either cluster or the frozen state of a filesystem.
C18_CheckReadOnly ==
  [][(cpc # "idle" \/ cpc' # "idle") =>
       /\ \A i \in DOMAIN NewCCmds :
            /\ NewCCmds[i].cmd \in {"list", "snap list"}
            /\ NewCCmds[i].snap = NoSnap
            /\ NewCCmds[i].from = NoSnap
            /\ NewCCmds[i].size = NoSize
       /\ UNCHANGED <<srcSnaps, dstImages, dstSnaps, sfrozen, fsfrozen>>]_vars

\* C18 witness: at the threshold time check found "a" missing on the
\* backup cluster, reported it and left it missing; it ran queries only
C18_Witness ==
  /\ cpc = "exited"
  /\ cexit = 2
  /\ "a" \notin dstImages
  /\ \E i \in DOMAIN cerrors :
       cerrors[i] = CheckError("a", "image missing on backup cluster", NoSnap)
  /\ \E k \in DOMAIN ccmds : ccmds[k].cmd = "snap list"
  /\ \A k \in DOMAIN ccmds : ccmds[k].cmd \in {"list", "snap list"}

\* ---------------------------------------------------------------- C19
\* the errors of the snapshot checks of lines 151, 160, 137 and 139
SnapshotCheckErrors ==
  {"Source image doesn't have today's snapshot",
   "Destination image already has today's snapshot",
   "Source image doesn't have yesterday's snapshot",
   "Destination image doesn't have yesterday's snapshot"}

\* C19: an attempt that ends with the error of a snapshot check has run
\* no export and no import for the volume and leaves both clusters as
\* they are; within an attempt a backup history changes only in the step
\* that runs the transfer, and only the history of the attempt's volume,
\* and the set of backup images changes only by the create of line 156,
\* which adds the attempt's volume, missing until then, after a source
\* listing that holds today's label.
C19_RejectedLeavesDestination ==
  [][\A p \in Procs : InAttempt(p) =>
       /\ (/\ EndsAttempt(p)
           /\ CountedError(p)
           /\ Last(rout'[p]).msg \in SnapshotCheckErrors) =>
            /\ ~IssuedTransfer(p)
            /\ CmdIndexes(p, image(p), "export-diff") = {}
            /\ CmdIndexes(p, image(p), "import-diff") = {}
            /\ UNCHANGED clusterVars
       /\ dstSnaps' # dstSnaps =>
            /\ IssuedTransfer(p)
            /\ \A im \in Images \ {image(p)} : dstSnaps'[im] = dstSnaps[im]
       /\ dstImages' # dstImages =>
            /\ rpc[p] = "l156"
            /\ image(p) \notin dstImages
            /\ dstImages' = dstImages \cup {image(p)}
            /\ today(day) \in SrcLabels(image(p))
            /\ CmdIndexes(p, image(p), "snap list") # {}
       /\ srcSnaps' = srcSnaps]_vars

\* C19 witness: "a" was replicated, then "b" was rejected because its
\* backup history, which is not empty, lacks yesterday's label: no export
\* or import was run for "b"
C19_Witness ==
  /\ rpc[1] = "loop"
  /\ ridx[1] = 3
  /\ rsingle[1] = NoImage
  /\ Last(rout[1]) = Error("Destination image doesn't have yesterday's snapshot", "b")
  /\ dstSnaps["b"] # <<>>
  /\ CmdIndexes(1, "b", "export-diff") = {}
  /\ CmdIndexes(1, "b", "import-diff") = {}
  /\ \E k \in CmdIndexes(1, "a", "import-diff") : rcmds[1][k].ok

====
